---- MODULE Spec2Model ----
(***************************************************************************)
(* SOCKS5 UDP support checker (udp-check.py).                              *)
(*                                                                         *)
(* One run of main(): the parsed command line, then check_udp_support()    *)
(* step by step (TCP socket, connect, SOCKS5 greeting and optional         *)
(* username/password sub-negotiation, UDP ASSOCIATE, the UDP probe         *)
(* through the relay), its exception handlers and finally clauses, and     *)
(* the exit code chosen by main().                                         *)
(*                                                                         *)
(* Bytes objects are sequences of numbers 0..255.  Python str objects are  *)
(* sequences of code points, except exception messages, which are TLA+     *)
(* strings.  The proxy server, the relay and the operating system are the  *)
(* environment: every blocking socket call nondeterministically succeeds   *)
(* with data drawn from a small set, times out, or fails with an OSError.  *)
(***************************************************************************)
EXTENDS Integers, Sequences, FiniteSets, TLC

(***************************************************************************)
(* Bounds of the model.                                                    *)
(***************************************************************************)
\* reply codes 0..MaxReply (and 255) are tried in the UDP ASSOCIATE response
MaxReply == 10
\* the relay's reply datagram has 0..MaxReplyLen bytes
MaxReplyLen == 12
\* the domain length byte of the UDP ASSOCIATE response is 0..MaxDomainLen
MaxDomainLen == 2
\* at most MaxQueue datagrams reach the UDP socket while recvfrom waits
MaxQueue == 2
\* a caller of the two control-channel functions runs the handshake at most
\* MaxHandshakes times on one connection
MaxHandshakes == 2

(***************************************************************************)
(* class SOCKS5                                                            *)
(***************************************************************************)
SOCKS5_VERSION == 5
AUTH_NONE == 0
AUTH_USERPASS == 2
CMD_UDP_ASSOCIATE == 3
ATYP_IPV4 == 1
ATYP_DOMAIN == 3
REP_SUCCESS == 0
NO_ACCEPTABLE == 255

ERROR_MESSAGES ==
    [r \in 1..9 |->
        CASE r = 1 -> "General server failure"
          [] r = 2 -> "Connection not allowed by ruleset"
          [] r = 3 -> "Network unreachable"
          [] r = 4 -> "Host unreachable"
          [] r = 5 -> "Connection refused"
          [] r = 6 -> "TTL expired"
          [] r = 7 -> "Command not supported"
          [] r = 8 -> "Address type not supported"
          [] r = 9 -> "UDP not supported"]

\* variant of ErrorMessage: the table's last entry is not looked up
ErrorMessageShortTable(reply) ==
    IF reply \in 1..8
    THEN ERROR_MESSAGES[reply]
    ELSE "Unknown error (code " \o ToString(reply) \o ")"

\* SOCKS5.ERROR_MESSAGES.get(reply, f"Unknown error (code {reply})")
ErrorMessage(reply) ==
    IF reply \in DOMAIN ERROR_MESSAGES
    THEN ERROR_MESSAGES[reply]
    ELSE "Unknown error (code " \o ToString(reply) \o ")"

(***************************************************************************)
(* Python values                                                           *)
(***************************************************************************)
\* Optional[str]: None, or a str given by its code points
None == [isNone |-> TRUE, val |-> <<>>]
Str(s) == [isNone |-> FALSE, val |-> s]
\* truth value of an Optional[str]: None and "" are false
Truthy(x) == ~x.isNone /\ Len(x.val) > 0

\* exceptions: the class caught by the handlers, and the message
NoExc == [kind |-> "none", msg |-> ""]
Exc(k, m) == [kind |-> k, msg |-> m]

\* struct.pack('B', n) accepts 0 <= n <= 255 and raises struct.error otherwise
PackBOk(n) == n \in 0..255

\* variant of UnpackH: the port is read in little-endian order
UnpackHLittleEndian(b) == b[2] * 256 + b[1]

\* struct.pack('!H', n) / struct.unpack('!H', b): network byte order
PackH(n) == <<n \div 256, n % 256>>
UnpackH(b) == b[1] * 256 + b[2]

\* str.encode('utf-8') for code points below 0x800 (the encoding of a str
\* is the concatenation of the encodings of its halves)
RECURSIVE Utf8Encode(_)
Utf8Encode(s) ==
    IF s = <<>> THEN <<>>
    ELSE IF Len(s) = 1
    THEN LET c == s[1] IN
         IF c < 128 THEN <<c>>
         ELSE <<192 + (c \div 64), 128 + (c % 64)>>
    ELSE LET h == Len(s) \div 2 IN
         Utf8Encode(SubSeq(s, 1, h)) \o Utf8Encode(SubSeq(s, h + 1, Len(s)))

\* bytes.decode('utf-8') for one- and two-byte forms (bytes below 0xE0):
\* ok = FALSE is UnicodeDecodeError
RECURSIVE Utf8Decode(_)
Utf8Decode(b) ==
    IF b = <<>> THEN [ok |-> TRUE, text |-> <<>>]
    ELSE IF b[1] < 128
    THEN LET r == Utf8Decode(Tail(b)) IN
         [ok |-> r.ok, text |-> IF r.ok THEN <<b[1]>> \o r.text ELSE <<>>]
    ELSE IF b[1] \in 194..223 /\ Len(b) >= 2 /\ b[2] \in 128..191
    THEN LET r == Utf8Decode(Tail(Tail(b))) IN
         [ok |-> r.ok,
          text |-> IF r.ok THEN <<(b[1] - 192) * 64 + (b[2] - 128)>> \o r.text
                   ELSE <<>>]
    ELSE [ok |-> FALSE, text |-> <<>>]

\* decimal digits of n as code points (str(n))
RECURSIVE Decimal(_)
Decimal(n) ==
    IF n < 10 THEN <<48 + n>> ELSE Decimal(n \div 10) \o <<48 + (n % 10)>>

\* socket.inet_ntoa(addr): dotted quad of 4 packed bytes
inet_ntoa(addr) ==
    Decimal(addr[1]) \o <<46>> \o Decimal(addr[2]) \o <<46>> \o
    Decimal(addr[3]) \o <<46>> \o Decimal(addr[4])

(***************************************************************************)
(* Messages built by the client                                            *)
(***************************************************************************)
\* variant of Greeting: one credential is enough to offer username/password
GreetingEitherCredential(user, passwd) ==
    IF Truthy(user) \/ Truthy(passwd)
    THEN <<SOCKS5_VERSION, 2, AUTH_NONE, AUTH_USERPASS>>
    ELSE <<SOCKS5_VERSION, 1, AUTH_NONE>>

\* connect_socks5: the greeting
Greeting(user, passwd) ==
    IF Truthy(user) /\ Truthy(passwd)
    THEN <<SOCKS5_VERSION, 2, AUTH_NONE, AUTH_USERPASS>>
    ELSE <<SOCKS5_VERSION, 1, AUTH_NONE>>

\* connect_socks5: the RFC 1929 request; ok = FALSE is struct.error
AuthRequest(user, passwd) ==
    LET user_bytes == Utf8Encode(user.val)
        pass_bytes == Utf8Encode(passwd.val)
    IN  [ok   |-> PackBOk(Len(user_bytes)) /\ PackBOk(Len(pass_bytes)),
         data |-> <<1, Len(user_bytes)>> \o user_bytes \o
                  <<Len(pass_bytes)>> \o pass_bytes]

\* request_udp_associate: VER CMD RSV ATYP 0.0.0.0 port 0
AssociateRequest ==
    <<SOCKS5_VERSION, CMD_UDP_ASSOCIATE, 0>> \o <<ATYP_IPV4>> \o
    <<0, 0, 0, 0>> \o PackH(0)

\* domain.split('.'): the parts of a str between dots
RECURSIVE Split(_)
Split(s) ==
    IF \A i \in 1..Len(s) : s[i] # 46 THEN <<s>>
    ELSE LET k == CHOOSE i \in 1..Len(s) :
                      s[i] = 46 /\ \A j \in 1..(i - 1) : s[j] # 46
         IN  <<SubSeq(s, 1, k - 1)>> \o Split(SubSeq(s, k + 1, Len(s)))

RECURSIVE Labels(_)
Labels(parts) ==
    IF parts = <<>> THEN <<>>
    ELSE <<Len(Head(parts))>> \o Utf8Encode(Head(parts)) \o Labels(Tail(parts))

\* create_dns_query(domain)
create_dns_query(domain) ==
    PackH(4660) \o PackH(256) \o PackH(1) \o PackH(0) \o PackH(0) \o PackH(0) \o
    Labels(Split(domain)) \o <<0>> \o PackH(1) \o PackH(1)

\* "google.com" and "8.8.8.8"
ProbeDomain == <<103, 111, 111, 103, 108, 101, 46, 99, 111, 109>>
ProbeTarget == <<56, 46, 56, 46, 56, 46, 56>>

\* test_udp_relay: the encapsulated probe datagram
ProbePacket ==
    LET target_bytes == Utf8Encode(ProbeTarget) IN
    PackH(0) \o <<0, ATYP_DOMAIN>> \o <<Len(target_bytes)>> \o target_bytes \o
    PackH(53) \o create_dns_query(ProbeDomain)

(***************************************************************************)
(* Checks made on the server's responses                                   *)
(***************************************************************************)
\* variant of HandshakeCheck: a method the client did not offer is refused
HandshakeCheckOfferedOnly(resp, user, passwd) ==
    IF Len(resp) # 2
    THEN Exc("ConnectionError", "Invalid handshake response")
    ELSE IF resp[1] # SOCKS5_VERSION
    THEN Exc("ConnectionError",
             "Unsupported SOCKS version: " \o ToString(resp[1]))
    ELSE IF resp[2] = NO_ACCEPTABLE \/ resp[2] \notin {AUTH_NONE, AUTH_USERPASS}
    THEN Exc("ConnectionError", "No acceptable authentication methods")
    ELSE IF resp[2] = AUTH_USERPASS /\ (~Truthy(user) \/ ~Truthy(passwd))
    THEN Exc("ConnectionError", "Server requires authentication")
    ELSE NoExc

\* variant of HandshakeCheck: method 0x02 is accepted without checking that
\* the client has credentials
HandshakeCheckNoCredentials(resp, user, passwd) ==
    IF Len(resp) # 2
    THEN Exc("ConnectionError", "Invalid handshake response")
    ELSE IF resp[1] # SOCKS5_VERSION
    THEN Exc("ConnectionError",
             "Unsupported SOCKS version: " \o ToString(resp[1]))
    ELSE IF resp[2] = NO_ACCEPTABLE
    THEN Exc("ConnectionError", "No acceptable authentication methods")
    ELSE NoExc

\* connect_socks5: the checks on the 2-byte method selection response
HandshakeCheck(resp, user, passwd) ==
    IF Len(resp) # 2
    THEN Exc("ConnectionError", "Invalid handshake response")
    ELSE LET version == resp[1]
             method == resp[2]
         IN  IF version # SOCKS5_VERSION
             THEN Exc("ConnectionError",
                      "Unsupported SOCKS version: " \o ToString(version))
             ELSE IF method = NO_ACCEPTABLE
             THEN Exc("ConnectionError", "No acceptable authentication methods")
             ELSE IF method = AUTH_USERPASS
                     /\ (~Truthy(user) \/ ~Truthy(passwd))
             THEN Exc("ConnectionError", "Server requires authentication")
             ELSE NoExc

\* variant of AuthCheck: any 2-byte response is taken as success
AuthCheckLengthOnly(auth_resp) ==
    IF Len(auth_resp) # 2
    THEN Exc("ConnectionError", "Authentication failed")
    ELSE NoExc

\* connect_socks5: the check on the sub-negotiation response
AuthCheck(auth_resp) ==
    IF Len(auth_resp) # 2 \/ auth_resp[2] # 0
    THEN Exc("ConnectionError", "Authentication failed")
    ELSE NoExc

\* variant of AssociateCheck: the version byte of the header is not checked
AssociateCheckNoVersion(header) ==
    IF Len(header) # 4
    THEN Exc("ConnectionError", "Invalid UDP ASSOCIATE response")
    ELSE IF header[2] # REP_SUCCESS
    THEN Exc("ConnectionError",
             "UDP ASSOCIATE failed: " \o ErrorMessage(header[2]))
    ELSE IF header[4] # ATYP_IPV4 /\ header[4] # ATYP_DOMAIN
    THEN Exc("ConnectionError",
             "Unsupported address type: " \o ToString(header[4]))
    ELSE NoExc

\* request_udp_associate: the checks on the 4-byte response header
AssociateCheck(header) ==
    IF Len(header) # 4
    THEN Exc("ConnectionError", "Invalid UDP ASSOCIATE response")
    ELSE LET version == header[1]
             reply == header[2]
             atyp == header[4]
         IN  IF version # SOCKS5_VERSION
             THEN Exc("ConnectionError",
                      "Invalid SOCKS version: " \o ToString(version))
             ELSE IF reply # REP_SUCCESS
             THEN Exc("ConnectionError",
                      "UDP ASSOCIATE failed: " \o ErrorMessage(reply))
             ELSE IF atyp # ATYP_IPV4 /\ atyp # ATYP_DOMAIN
             THEN Exc("ConnectionError",
                      "Unsupported address type: " \o ToString(atyp))
             ELSE NoExc

\* variant of ProbeVerdict: len(response) >= 10
ProbeVerdictAtLeast10(data) == IF Len(data) >= 10 THEN "True" ELSE "False"

\* test_udp_relay: return len(response) > 10
ProbeVerdict(data) == IF Len(data) > 10 THEN "True" ELSE "False"

\* variant of ExceptClause: no "except Exception" clause
ExceptClauseNoCatchAll(kind) ==
    IF kind = "ConnectionError" THEN "ConnectionError"
    ELSE IF kind = "timeout" THEN "socket.timeout"
    ELSE "uncaught"

\* check_udp_support: the except clause that catches an exception class
\* (ConnectionError and socket.timeout are OSErrors; OSError, struct.error
\* and UnicodeDecodeError are Exceptions)
ExceptClause(kind) ==
    IF kind = "ConnectionError" THEN "ConnectionError"
    ELSE IF kind = "timeout" THEN "socket.timeout"
    ELSE "Exception"

\* fixed timeouts: tcp_sock.settimeout(10.0); test_udp_relay(timeout=5.0);
\* argparse default of --timeout; recvfrom(4096)
TCP_TIMEOUT == 10
DEFAULT_UDP_TIMEOUT == 5
DEFAULT_ARG_TIMEOUT == 5
RECV_BUFSIZE == 4096

(***************************************************************************)
(* The environment: inputs of the run and answers of the network           *)
(***************************************************************************)
Prefixes(S) == UNION {{SubSeq(s, 1, k) : k \in 0..Len(s)} : s \in S}

\* a str of 256 characters: its length does not fit struct.pack('B', ...)
LongStr == [i \in 1..256 |-> 97]

\* -u / -p: absent, empty, short, too long
Usernames == {None, Str(<<>>), Str(<<117>>), Str(LongStr)}
Passwords == {None, Str(<<>>), Str(<<112>>)}
\* -t: the default and another value
TimeoutArgs == {DEFAULT_ARG_TIMEOUT, 7}

\* how a blocking socket call fails
Failures == {"timeout", "OSError", "ConnectionError"}

GreetingResponses == {<<v, m>> : v \in {4, 5}, m \in {0, 1, 2, 255}}
AuthResponses == {<<1, 0>>, <<1, 1>>, <<5, 0>>}
ReplyCodes == 0..MaxReply \cup {255}
Headers == {<<v, r, 0, a>> : v \in {4, 5}, r \in ReplyCodes, a \in {1, 3, 4}}
Ipv4Addrs == {<<1, 2, 3, 4>>, <<127, 0, 0, 1>>}
\* "example.com"
ExampleDomain == <<101, 120, 97, 109, 112, 108, 101, 46, 99, 111, 109>>
\* domain length bytes: the short ones and that of "example.com"
DomainLens == {<<n>> : n \in 0..MaxDomainLen} \cup {<<Len(ExampleDomain)>>}
\* 'a', and the two bytes of U+00E9
DomainBytes == {97, 195, 169}
\* domain bytes on the stream: every short sequence, and "example.com"
DomainData == UNION {[1..n -> DomainBytes] : n \in 0..MaxDomainLen}
                  \cup {ExampleDomain}
Ports == {PackH(5000), PackH(53)}
\* reply datagrams: zero-filled of every length up to MaxReplyLen, and
\* 0xFF-filled ones on either side of the length the probe tests for
Datagrams == {[i \in 1..n |-> 0] : n \in 0..MaxReplyLen}
                 \cup {[i \in 1..n |-> 255] : n \in {10, 11}}
Senders == {"relay", "other"}
\* the relay's reply when it arrives behind another datagram
LateReply == [i \in 1..MaxReplyLen |-> 0]

(***************************************************************************)
(* State                                                                   *)
(***************************************************************************)
VARIABLES
    pc,          \* the statement main() / check_udp_support() is at
    username,    \* args.username
    password,    \* args.password
    timeout_arg, \* args.timeout
    tcp_sock,    \* "None", "open" or "closed"
    tcpCreated,  \* number of TCP sockets created
    tcpTimeout,  \* timeout set on the TCP socket (0: none set)
    tcpConnects, \* number of connect() calls
    tcpEof,      \* the server has closed its side: recv returns b''
    tcpSent,     \* the messages handed to sendall, in order
    tcpReads,    \* the recv calls that returned: what, bytes asked, bytes got
    length,      \* request_udp_associate: the domain length byte
    relay_host,  \* the relay endpoint's host (None before it is read)
    relay_port,  \* the relay endpoint's port (-1 before it is read)
    udp_sock,    \* "None", "open" or "closed"
    udpCreated,  \* number of UDP sockets created
    udpTimeout,  \* timeout set on the UDP socket (0: none set)
    udpSent,     \* the datagrams handed to sendto: packet, host, port
    response,    \* the datagram recvfrom returned, and who sent it
    udpQueue,    \* datagrams that reached the UDP socket and are not read
    udp_works,   \* test_udp_relay's return value ("None" before it returns)
    exc,         \* the exception being propagated or handled
    clause,      \* the except clause that handled it
    result,      \* check_udp_support's return value ("None" before)
    step,        \* the last progress line "[step/4]" reached
    exitCode     \* sys.exit's argument (-1 while running)

vars == <<pc, username, password, timeout_arg, tcp_sock, tcpCreated,
          tcpTimeout, tcpConnects, tcpEof, tcpSent, tcpReads, length,
          relay_host, relay_port, udp_sock, udpCreated, udpTimeout, udpSent,
          response, udpQueue, udp_works, exc, clause, result, step,
          exitCode>>

args == <<username, password, timeout_arg>>
tcpState == <<tcp_sock, tcpCreated, tcpTimeout, tcpConnects>>
tcpIo == <<tcpEof, tcpSent, tcpReads>>
endpoint == <<length, relay_host, relay_port>>
udpState == <<udp_sock, udpCreated, udpTimeout>>
udpIo == <<udpSent, response, udp_works, udpQueue>>
outcome == <<clause, result, exitCode>>

NoResponse == [received |-> FALSE, data |-> <<>>, sender |-> "none"]

\* main(): the command line is parsed, check_udp_support is about to run
Init ==
    /\ pc = "tcp_socket"
    /\ username \in Usernames
    /\ password \in Passwords
    /\ timeout_arg \in TimeoutArgs
    /\ tcp_sock = "None"
    /\ tcpCreated = 0
    /\ tcpTimeout = 0
    /\ tcpConnects = 0
    /\ tcpEof = FALSE
    /\ tcpSent = <<>>
    /\ tcpReads = <<>>
    /\ length = 0
    /\ relay_host = None
    /\ relay_port = -1
    /\ udp_sock = "None"
    /\ udpCreated = 0
    /\ udpTimeout = 0
    /\ udpSent = <<>>
    /\ response = NoResponse
    /\ udpQueue = <<>>
    /\ udp_works = "None"
    /\ exc = NoExc
    /\ clause = "none"
    /\ result = "None"
    /\ step = 0
    /\ exitCode = -1

(***************************************************************************)
(* Helpers of the actions                                                  *)
(***************************************************************************)
\* an exception raised in check_udp_support's try block, outside the probe's
Raise(k, m) ==
    /\ exc' = Exc(k, m)
    /\ pc' = "except"

\* an exception raised in test_udp_relay's try block: its finally runs first
RaiseInProbe(k, m) ==
    /\ exc' = Exc(k, m)
    /\ pc' = "udp_close"

\* sock.sendall(data): the write is attempted, then succeeds or fails
SendAll(data, next) ==
    /\ tcpSent' = Append(tcpSent, data)
    /\ \/ /\ pc' = next
          /\ exc' = exc
       \/ \E f \in Failures : Raise(f, "sendall")
    /\ UNCHANGED <<tcpEof, tcpReads>>

\* what sock.recv(n) can return when the stream holds one of the candidates
RecvData(n, candidates) ==
    IF tcpEof \/ n = 0 THEN {<<>>}
    ELSE {d \in Prefixes(candidates) : Len(d) <= n}

\* bookkeeping of a recv(n) that returned d; b'' for n > 0 is end of stream
Received(what, n, d) ==
    /\ tcpReads' = Append(tcpReads, [what |-> what, req |-> n, got |-> d])
    /\ tcpEof' = (tcpEof \/ (n > 0 /\ d = <<>>))
    /\ tcpSent' = tcpSent

\* sock.recv raised instead of returning
RecvFails ==
    /\ \E f \in Failures : Raise(f, "recv")
    /\ UNCHANGED tcpIo

(***************************************************************************)
(* check_udp_support: connection                                           *)
(***************************************************************************)
\* tcp_sock = socket.socket(AF_INET, SOCK_STREAM); tcp_sock.settimeout(10.0)
TcpSocket ==
    /\ pc = "tcp_socket"
    /\ \/ /\ tcp_sock' = "open"
          /\ tcpCreated' = tcpCreated + 1
          /\ tcpTimeout' = TCP_TIMEOUT
          /\ pc' = "tcp_connect"
          /\ exc' = exc
       \/ /\ Raise("OSError", "socket")
          /\ UNCHANGED <<tcp_sock, tcpCreated, tcpTimeout>>
    /\ UNCHANGED <<args, tcpConnects, tcpIo, endpoint, udpState, udpIo,
                   outcome, step>>

\* tcp_sock.connect((host, port))
TcpConnect ==
    /\ pc = "tcp_connect"
    /\ tcpConnects' = tcpConnects + 1
    /\ \/ /\ pc' = "send_greeting"
          /\ step' = 1
          /\ exc' = exc
       \/ /\ \E f \in Failures : Raise(f, "connect")
          /\ step' = step
    /\ UNCHANGED <<args, tcp_sock, tcpCreated, tcpTimeout, tcpIo, endpoint,
                   udpState, udpIo, outcome>>

(***************************************************************************)
(* connect_socks5                                                          *)
(***************************************************************************)
\* sock.sendall(greeting)
SendGreeting ==
    /\ pc = "send_greeting"
    /\ SendAll(Greeting(username, password), "recv_greeting")
    /\ UNCHANGED <<args, tcpState, endpoint, udpState, udpIo, outcome, step>>

\* response = sock.recv(2) and the checks on it
RecvGreeting ==
    /\ pc = "recv_greeting"
    /\ \/ /\ RecvFails
          /\ step' = step
       \/ \E resp \in RecvData(2, GreetingResponses) :
             /\ Received("greeting", 2, resp)
             /\ LET e == HandshakeCheck(resp, username, password) IN
                IF e # NoExc
                THEN /\ Raise(e.kind, e.msg)
                     /\ step' = step
                ELSE IF resp[2] = AUTH_USERPASS
                THEN /\ pc' = "send_auth"
                     /\ UNCHANGED <<exc, step>>
                ELSE /\ pc' = "send_assoc"
                     /\ step' = 2
                     /\ exc' = exc
    /\ UNCHANGED <<args, tcpState, endpoint, udpState, udpIo, outcome>>

\* auth_req = struct.pack(...) ...; sock.sendall(auth_req)
SendAuth ==
    /\ pc = "send_auth"
    /\ LET auth_req == AuthRequest(username, password) IN
       IF auth_req.ok
       THEN SendAll(auth_req.data, "recv_auth")
       ELSE /\ Raise("struct.error", "ubyte format requires 0 <= number <= 255")
            /\ UNCHANGED tcpIo
    /\ UNCHANGED <<args, tcpState, endpoint, udpState, udpIo, outcome, step>>

\* auth_resp = sock.recv(2) and the check on it
RecvAuth ==
    /\ pc = "recv_auth"
    /\ \/ /\ RecvFails
          /\ step' = step
       \/ \E auth_resp \in RecvData(2, AuthResponses) :
             /\ Received("auth", 2, auth_resp)
             /\ LET e == AuthCheck(auth_resp) IN
                IF e # NoExc
                THEN /\ Raise(e.kind, e.msg)
                     /\ step' = step
                ELSE /\ pc' = "send_assoc"
                     /\ step' = 2
                     /\ exc' = exc
    /\ UNCHANGED <<args, tcpState, endpoint, udpState, udpIo, outcome>>

(***************************************************************************)
(* request_udp_associate                                                   *)
(***************************************************************************)
\* sock.sendall(request)
SendAssociate ==
    /\ pc = "send_assoc"
    /\ SendAll(AssociateRequest, "recv_header")
    /\ UNCHANGED <<args, tcpState, endpoint, udpState, udpIo, outcome, step>>

\* header = sock.recv(4), the checks on it, and the branch on atyp
RecvHeader ==
    /\ pc = "recv_header"
    /\ \/ RecvFails
       \/ \E header \in RecvData(4, Headers) :
             /\ Received("header", 4, header)
             /\ LET e == AssociateCheck(header) IN
                IF e # NoExc
                THEN Raise(e.kind, e.msg)
                ELSE /\ pc' = IF header[4] = ATYP_IPV4 THEN "recv_ipv4"
                              ELSE "recv_len"
                     /\ exc' = exc
    /\ UNCHANGED <<args, tcpState, endpoint, udpState, udpIo, outcome, step>>

\* addr = sock.recv(4); relay_host = socket.inet_ntoa(addr)
RecvIpv4 ==
    /\ pc = "recv_ipv4"
    /\ \/ /\ RecvFails
          /\ relay_host' = relay_host
       \/ \E addr \in RecvData(4, Ipv4Addrs) :
             /\ Received("ipv4", 4, addr)
             /\ IF Len(addr) # 4
                THEN /\ Raise("OSError", "packed IP wrong length for inet_ntoa")
                     /\ relay_host' = relay_host
                ELSE /\ relay_host' = Str(inet_ntoa(addr))
                     /\ pc' = "recv_port"
                     /\ exc' = exc
    /\ UNCHANGED <<args, tcpState, length, relay_port, udpState, udpIo,
                   outcome, step>>

\* length = struct.unpack('B', sock.recv(1))[0]
RecvLen ==
    /\ pc = "recv_len"
    /\ \/ /\ RecvFails
          /\ length' = length
       \/ \E b \in RecvData(1, DomainLens) :
             /\ Received("len", 1, b)
             /\ IF Len(b) # 1
                THEN /\ Raise("struct.error", "unpack requires a buffer of 1 bytes")
                     /\ length' = length
                ELSE /\ length' = b[1]
                     /\ pc' = "recv_domain"
                     /\ exc' = exc
    /\ UNCHANGED <<args, tcpState, relay_host, relay_port, udpState, udpIo,
                   outcome, step>>

\* relay_host = sock.recv(length).decode('utf-8')
RecvDomain ==
    /\ pc = "recv_domain"
    /\ \/ /\ RecvFails
          /\ relay_host' = relay_host
       \/ \E d \in RecvData(length, DomainData) :
             /\ Received("domain", length, d)
             /\ LET t == Utf8Decode(d) IN
                IF ~t.ok
                THEN /\ Raise("UnicodeDecodeError", "invalid utf-8")
                     /\ relay_host' = relay_host
                ELSE /\ relay_host' = Str(t.text)
                     /\ pc' = "recv_port"
                     /\ exc' = exc
    /\ UNCHANGED <<args, tcpState, length, relay_port, udpState, udpIo,
                   outcome, step>>

\* relay_port = struct.unpack('!H', sock.recv(2))[0]; return
RecvPort ==
    /\ pc = "recv_port"
    /\ \/ /\ RecvFails
          /\ UNCHANGED <<relay_port, step>>
       \/ \E b \in RecvData(2, Ports) :
             /\ Received("port", 2, b)
             /\ IF Len(b) # 2
                THEN /\ Raise("struct.error", "unpack requires a buffer of 2 bytes")
                     /\ UNCHANGED <<relay_port, step>>
                ELSE /\ relay_port' = UnpackH(b)
                     /\ step' = 3
                     /\ pc' = "udp_socket"
                     /\ exc' = exc
    /\ UNCHANGED <<args, tcpState, length, relay_host, udpState, udpIo,
                   outcome>>

(***************************************************************************)
(* test_udp_relay                                                          *)
(***************************************************************************)
\* variant of UdpSocket: the control connection is closed once the relay
\* endpoint is known, before the probe
UdpSocketClosesTcp ==
    /\ pc = "udp_socket"
    /\ tcp_sock' = "closed"
    /\ udp_sock' = "open"
    /\ udpCreated' = udpCreated + 1
    /\ udpTimeout' = DEFAULT_UDP_TIMEOUT
    /\ pc' = "udp_send"
    /\ UNCHANGED <<args, tcpCreated, tcpTimeout, tcpConnects, tcpIo, endpoint,
                   udpIo, exc, outcome, step>>

\* variant of UdpSocket: a second socket is created for the receive side
UdpSocketTwo ==
    /\ pc = "udp_socket"
    /\ udp_sock' = "open"
    /\ udpCreated' = udpCreated + 2
    /\ udpTimeout' = DEFAULT_UDP_TIMEOUT
    /\ pc' = "udp_send"
    /\ UNCHANGED <<args, tcpState, tcpIo, endpoint, udpIo, exc, outcome, step>>

\* udp_sock = socket.socket(AF_INET, SOCK_DGRAM); udp_sock.settimeout(timeout)
\* (check_udp_support passes no timeout: the parameter keeps its default)
UdpSocket ==
    /\ pc = "udp_socket"
    /\ \/ /\ udp_sock' = "open"
          /\ udpCreated' = udpCreated + 1
          /\ udpTimeout' = DEFAULT_UDP_TIMEOUT
          /\ pc' = "udp_send"
          /\ exc' = exc
       \/ /\ Raise("OSError", "socket")
          /\ UNCHANGED udpState
    /\ UNCHANGED <<args, tcpState, tcpIo, endpoint, udpIo, outcome, step>>

\* udp_sock.sendto(packet, (relay_host, relay_port))
UdpSend ==
    /\ pc = "udp_send"
    /\ udpSent' = Append(udpSent, [packet |-> ProbePacket,
                                   host |-> relay_host.val,
                                   port |-> relay_port])
    /\ \/ /\ pc' = "udp_recv"
          /\ exc' = exc
       \/ \E f \in Failures : RaiseInProbe(f, "sendto")
    /\ UNCHANGED <<args, tcpState, tcpIo, endpoint, udpState, response,
                   udp_works, udpQueue, outcome, step>>

\* the network: while recvfrom waits, a datagram reaches the socket's
\* receive queue; the first is any datagram from any sender, those behind it
\* are the relay's full-length reply
Deliver ==
    /\ pc = "udp_recv"
    /\ Len(udpQueue) < MaxQueue
    /\ \/ /\ udpQueue = <<>>
          /\ \E d \in Datagrams, from \in Senders :
                udpQueue' = <<[data |-> d, sender |-> from]>>
       \/ /\ udpQueue # <<>>
          /\ udpQueue' = Append(udpQueue, [data |-> LateReply,
                                           sender |-> "relay"])
    /\ UNCHANGED <<pc, args, tcpState, tcpIo, endpoint, udpState, udpSent,
                   response, udp_works, exc, outcome, step>>

\* variant of UdpRecv: datagrams that do not come from the relay are
\* skipped
UdpRecvChecksSender ==
    /\ pc = "udp_recv"
    /\ LET fromRelay == SelectSeq(udpQueue, LAMBDA m : m.sender = "relay") IN
       \/ /\ fromRelay # <<>>
          /\ response' = [received |-> TRUE, data |-> Head(fromRelay).data,
                          sender |-> "relay"]
          /\ udp_works' = ProbeVerdict(Head(fromRelay).data)
          /\ udpQueue' = Tail(fromRelay)
          /\ pc' = "udp_close"
          /\ exc' = exc
       \/ /\ fromRelay = <<>>
          /\ udp_works' = "False"
          /\ udpQueue' = <<>>
          /\ pc' = "udp_close"
          /\ UNCHANGED <<response, exc>>
    /\ UNCHANGED <<args, tcpState, tcpIo, endpoint, udpState, udpSent,
                   outcome, step>>

\* variant of UdpRecv: after a receive timeout the probe datagram is sent
\* once more
UdpRecvRetry ==
    /\ pc = "udp_recv"
    /\ \/ /\ udpQueue # <<>>
          /\ response' = [received |-> TRUE, data |-> Head(udpQueue).data,
                          sender |-> Head(udpQueue).sender]
          /\ udp_works' = ProbeVerdict(Head(udpQueue).data)
          /\ udpQueue' = Tail(udpQueue)
          /\ pc' = "udp_close"
          /\ exc' = exc
       \/ /\ udpQueue = <<>>
          /\ Len(udpSent) < 2
          /\ pc' = "udp_send"
          /\ UNCHANGED <<response, udp_works, udpQueue, exc>>
       \/ /\ udpQueue = <<>>
          /\ Len(udpSent) >= 2
          /\ udp_works' = "False"
          /\ pc' = "udp_close"
          /\ UNCHANGED <<response, udpQueue, exc>>
    /\ UNCHANGED <<args, tcpState, tcpIo, endpoint, udpState, udpSent,
                   outcome, step>>

\* response, _ = udp_sock.recvfrom(4096); return len(response) > 10
\* except socket.timeout: return False
\* (recvfrom returns the first datagram of the queue, cut to 4096 bytes; it
\* times out when none has arrived; it may also fail with a socket error)
UdpRecv ==
    /\ pc = "udp_recv"
    /\ \/ /\ udpQueue # <<>>
          /\ LET d == Head(udpQueue).data
                 data == SubSeq(d, 1, IF Len(d) < RECV_BUFSIZE THEN Len(d)
                                      ELSE RECV_BUFSIZE)
             IN  /\ response' = [received |-> TRUE, data |-> data,
                                 sender |-> Head(udpQueue).sender]
                 /\ udp_works' = ProbeVerdict(data)
          /\ udpQueue' = Tail(udpQueue)
          /\ pc' = "udp_close"
          /\ exc' = exc
       \/ /\ udpQueue = <<>>
          /\ udp_works' = "False"
          /\ pc' = "udp_close"
          /\ UNCHANGED <<response, udpQueue, exc>>
       \/ /\ \E f \in Failures \ {"timeout"} : RaiseInProbe(f, "recvfrom")
          /\ UNCHANGED <<response, udp_works, udpQueue>>
    /\ UNCHANGED <<args, tcpState, tcpIo, endpoint, udpState, udpSent,
                   outcome, step>>

\* variant of UdpClose: the close is not in a finally clause, an exception
\* skips it
UdpCloseNoFinally ==
    /\ pc = "udp_close"
    /\ udp_sock' = IF exc = NoExc THEN "closed" ELSE udp_sock
    /\ udpQueue' = IF exc = NoExc THEN <<>> ELSE udpQueue
    /\ pc' = IF exc = NoExc THEN "return" ELSE "except"
    /\ UNCHANGED <<args, tcpState, tcpIo, endpoint, udpCreated, udpTimeout,
                   udpSent, response, udp_works, exc, outcome, step>>

\* finally: udp_sock.close(), then the return or the exception goes on
\* (closing the socket discards the datagrams it has not read)
UdpClose ==
    /\ pc = "udp_close"
    /\ udp_sock' = "closed"
    /\ udpQueue' = <<>>
    /\ pc' = IF exc = NoExc THEN "return" ELSE "except"
    /\ UNCHANGED <<args, tcpState, tcpIo, endpoint, udpCreated, udpTimeout,
                   udpSent, response, udp_works, exc, outcome, step>>

(***************************************************************************)
(* check_udp_support: result, handlers, cleanup; main: exit code           *)
(***************************************************************************)
\* udp_works = test_udp_relay(...); the "[4/4]" line; return udp_works
Return ==
    /\ pc = "return"
    /\ step' = 4
    /\ result' = udp_works
    /\ pc' = "finally"
    /\ UNCHANGED <<args, tcpState, tcpIo, endpoint, udpState, udpIo, exc,
                   clause, exitCode>>

\* variant of Except: a timeout while waiting for the greeting response is
\* not fatal, the read is tried again
ExceptWaitsAgain ==
    /\ pc = "except"
    /\ IF exc = Exc("timeout", "recv") /\ tcpReads = <<>>
       THEN /\ pc' = "recv_greeting"
            /\ exc' = NoExc
            /\ UNCHANGED <<clause, result>>
       ELSE /\ clause' = ExceptClause(exc.kind)
            /\ result' = "False"
            /\ pc' = "finally"
            /\ exc' = exc
    /\ UNCHANGED <<args, tcpState, tcpIo, endpoint, udpState, udpIo, step,
                   exitCode>>

\* variant of Except: the handler starts the check over, once
ExceptRetry ==
    /\ pc = "except"
    /\ clause' = ExceptClause(exc.kind)
    /\ result' = "False"
    /\ pc' = IF tcpCreated < 2 THEN "tcp_socket" ELSE "finally"
    /\ UNCHANGED <<args, tcpState, tcpIo, endpoint, udpState, udpIo, exc,
                   step, exitCode>>

\* except ConnectionError / socket.timeout / Exception: return False
Except ==
    /\ pc = "except"
    /\ clause' = ExceptClause(exc.kind)
    /\ result' = IF ExceptClause(exc.kind) = "uncaught" THEN result ELSE "False"
    /\ pc' = "finally"
    /\ UNCHANGED <<args, tcpState, tcpIo, endpoint, udpState, udpIo, exc,
                   step, exitCode>>

\* finally: if tcp_sock: tcp_sock.close()
Finally ==
    /\ pc = "finally"
    /\ tcp_sock' = IF tcp_sock # "None" THEN "closed" ELSE tcp_sock
    /\ pc' = IF clause = "uncaught" THEN "raised" ELSE "returned"
    /\ UNCHANGED <<args, tcpCreated, tcpTimeout, tcpConnects, tcpIo, endpoint,
                   udpState, udpIo, exc, clause, result, step, exitCode>>

\* main: sys.exit(0 if result else 1); an uncaught exception exits with 1
Exit ==
    /\ pc \in {"returned", "raised"}
    /\ exitCode' = IF pc = "returned" /\ result = "True" THEN 0 ELSE 1
    /\ pc' = "exit"
    /\ UNCHANGED <<args, tcpState, tcpIo, endpoint, udpState, udpIo, exc,
                   clause, result, step>>

Next ==
    \/ TcpSocket
    \/ TcpConnect
    \/ SendGreeting
    \/ RecvGreeting
    \/ SendAuth
    \/ RecvAuth
    \/ SendAssociate
    \/ RecvHeader
    \/ RecvIpv4
    \/ RecvLen
    \/ RecvDomain
    \/ RecvPort
    \/ UdpSocket
    \/ UdpSend
    \/ Deliver
    \/ UdpRecv
    \/ UdpClose
    \/ Return
    \/ Except
    \/ Finally
    \/ Exit

Spec == Init /\ [][Next]_vars

(***************************************************************************)
(* connect_socks5 and request_udp_associate are module-level functions that *)
(* take the socket as their only state: a caller other than                 *)
(* check_udp_support may invoke them in any order on a connected socket.    *)
(***************************************************************************)
\* connect_socks5 has returned normally on this connection
HandshakeCompleted == step >= 2

\* request_udp_associate(sock) is called on the connected socket although
\* connect_socks5 has not been
CallAssociateFirst ==
    /\ pc = "send_greeting"
    /\ tcpSent = <<>>
    /\ pc' = "send_assoc"
    /\ UNCHANGED <<args, tcpState, tcpIo, endpoint, udpState, udpIo, exc,
                   outcome, step>>

\* connect_socks5(sock, username, password) is called once more after it
\* has returned
CallHandshakeAgain ==
    /\ pc = "send_assoc"
    /\ HandshakeCompleted
    /\ Cardinality({i \in 1..Len(tcpSent) : tcpSent[i][1] = 5}) < MaxHandshakes
    /\ pc' = "send_greeting"
    /\ UNCHANGED <<args, tcpState, tcpIo, endpoint, udpState, udpIo, exc,
                   outcome, step>>

AnyOrderInit ==
    /\ Init
    /\ username \in {None, Str(<<117>>)}
    /\ password \in {None, Str(<<112>>)}
    /\ timeout_arg = DEFAULT_ARG_TIMEOUT

AnyOrderNext ==
    \/ Next
    \/ CallAssociateFirst
    \/ CallHandshakeAgain

AnyOrderSpec == AnyOrderInit /\ [][AnyOrderNext]_vars

\* the execution is synchronous and every blocking call carries a timeout:
\* the step the program is at is eventually taken
FairSpec == Spec /\ WF_vars(Next)

TypeOK ==
    /\ pc \in {"tcp_socket", "tcp_connect", "send_greeting", "recv_greeting",
               "send_auth", "recv_auth", "send_assoc", "recv_header",
               "recv_ipv4", "recv_len", "recv_domain", "recv_port",
               "udp_socket", "udp_send", "udp_recv", "udp_close", "return",
               "except", "finally", "returned", "raised", "exit"}
    /\ tcp_sock \in {"None", "open", "closed"}
    /\ udp_sock \in {"None", "open", "closed"}
    /\ udp_works \in {"None", "True", "False"}
    /\ result \in {"None", "True", "False"}
    /\ step \in 0..4
    /\ exitCode \in {-1, 0, 1}
    /\ relay_port \in -1..65535

(***************************************************************************)
(* Vocabulary of the properties                                            *)
(***************************************************************************)
\* check_udp_support is over: it returned, raised, or main has exited
Terminal == pc \in {"returned", "raised", "exit"}

\* the recv of that name has returned, and what it returned
HasRead(what) == \E i \in 1..Len(tcpReads) : tcpReads[i].what = what
ReadOf(what) ==
    tcpReads[CHOOSE i \in 1..Len(tcpReads) : tcpReads[i].what = what].got

\* the method the server selected: that of a 2-byte, version 5 response
\* to the greeting (-1: no such response)
SelectedMethod ==
    IF HasRead("greeting") /\ Len(ReadOf("greeting")) = 2
       /\ ReadOf("greeting")[1] = 5
    THEN ReadOf("greeting")[2]
    ELSE -1

HasCredentials ==
    /\ ~username.isNone /\ username.val # <<>>
    /\ ~password.isNone /\ password.val # <<>>

\* a message written to the control channel is an auth request: RFC 1929
\* requests start with 0x01, SOCKS5 requests with 0x05
AuthWrites == {i \in 1..Len(tcpSent) : tcpSent[i][1] = 1}
AssociateWrites ==
    {i \in 1..Len(tcpSent) : Len(tcpSent[i]) = 10 /\ tcpSent[i][2] = 3}

\* connect_socks5 is over (returned or raised)
HandshakeOver ==
    pc \notin {"tcp_socket", "tcp_connect", "send_greeting", "recv_greeting",
               "send_auth"}

\* a step of the sequence has failed: an exception was raised, or the probe
\* returned False
Failed == exc # NoExc \/ udp_works = "False"

(***************************************************************************)
(* C1                                                                      *)
(***************************************************************************)
\* C1: once check_udp_support has returned, whatever the exit path, the TCP
\* socket it opened and the UDP socket test_udp_relay opened (if any) are
\* closed: no terminal state has an open socket.
C1_SocketsClosed ==
    Terminal =>
        /\ tcp_sock # "open"
        /\ udp_sock # "open"
        /\ (tcpCreated > 0 => tcp_sock = "closed")
        /\ (udpCreated > 0 => udp_sock = "closed")

\* an exception raised inside the probe, after both sockets were opened
C1_Witness ==
    /\ pc = "returned"
    /\ exc.kind = "OSError"
    /\ exc.msg = "recvfrom"
    /\ tcp_sock = "closed"
    /\ udp_sock = "closed"

(***************************************************************************)
(* C2                                                                      *)
(***************************************************************************)
\* C2: a probe datagram is sent only after a UDP ASSOCIATE response with
\* version 0x05 and reply 0x00 was received and the bound address and port
\* were read completely (every read of them returned all bytes asked for).
C2_ProbeOnlyAfterCompleteEndpoint ==
    udpSent # <<>> =>
        /\ HasRead("header")
        /\ Len(ReadOf("header")) = 4
        /\ ReadOf("header")[1] = 5
        /\ ReadOf("header")[2] = 0
        /\ HasRead("port")
        /\ \A i \in 1..Len(tcpReads) :
              tcpReads[i].what \in {"ipv4", "len", "domain", "port"}
                  => Len(tcpReads[i].got) = tcpReads[i].req

(***************************************************************************)
(* C3                                                                      *)
(***************************************************************************)
\* C3: check_udp_support never lets an exception escape and always returns
\* a boolean; every failure at any stage gives False; only main() ends the
\* process.
C3_AlwaysBoolean ==
    /\ pc # "raised"
    /\ clause # "uncaught"
    /\ (pc \in {"returned", "exit"} => result \in {"True", "False"})
    /\ (pc \in {"returned", "exit"} /\ Failed => result = "False")
    /\ (exitCode # -1 => pc = "exit")

\* a failure that is neither ConnectionError nor socket.timeout: a short
\* read of the port makes struct.unpack raise
C3_Witness ==
    /\ pc = "returned"
    /\ exc.kind = "struct.error"
    /\ HasRead("port")
    /\ result = "False"

(***************************************************************************)
(* C4                                                                      *)
(***************************************************************************)
\* C4: once a step has failed, the rest of the check writes nothing to the
\* control channel, connects nothing, creates no UDP socket and sends no
\* datagram.
C4_StopsAtFirstFailure ==
    [][Failed => /\ tcpSent' = tcpSent
                 /\ tcpConnects' = tcpConnects
                 /\ tcpCreated' = tcpCreated
                 /\ udpCreated' = udpCreated
                 /\ udpSent' = udpSent]_vars

\* a check that failed in the handshake and ran to its end
C4_Witness ==
    /\ pc = "exit"
    /\ exc.msg = "No acceptable authentication methods"
    /\ Len(tcpSent) = 1
    /\ udpCreated = 0

(***************************************************************************)
(* C5                                                                      *)
(***************************************************************************)
\* each credential, encoded, has a length that fits the one-byte length field
CredentialsFit ==
    /\ Len(Utf8Encode(username.val)) <= 255
    /\ Len(Utf8Encode(password.val)) <= 255

\* C5 as stated: an auth request is written to the control channel exactly
\* when the server selected method 0x02 and the client has credentials
\* (username and password both non-empty).
C5_AuthIffUserPassAndCredentials ==
    /\ (AuthWrites # {} => SelectedMethod = 2 /\ HasCredentials)
    /\ (HandshakeOver /\ SelectedMethod = 2 /\ HasCredentials
            => AuthWrites # {})

\* C5, amended: an auth request is written exactly when the server selected
\* method 0x02, the client has credentials, and each credential encodes to at
\* most 255 bytes; it is written at most once, and never for another method
\* or without credentials.
C5_AuthIffUserPassAndFittingCredentials ==
    /\ (AuthWrites # {}
            => SelectedMethod = 2 /\ HasCredentials /\ CredentialsFit)
    /\ (HandshakeOver /\ SelectedMethod = 2 /\ HasCredentials
            /\ CredentialsFit => AuthWrites # {})
    /\ Cardinality(AuthWrites) <= 1

\* the server selected username/password and the request was written
C5_Witness ==
    /\ pc = "recv_auth"
    /\ SelectedMethod = 2
    /\ tcpSent[2] = <<1, 1, 117, 1, 112>>

(***************************************************************************)
(* C6                                                                      *)
(***************************************************************************)
\* C6: the probe returns True iff a reply datagram was received and is
\* longer than 10 bytes (10 bytes: False, 11 bytes: True, whatever the
\* content); it returns False when the receive times out; the check's result
\* is True exactly when handshake and associate succeeded and the probe
\* returned True.
C6_ProbeVerdict ==
    /\ (udp_works = "True" <=> response.received /\ Len(response.data) > 10)
    /\ (response.received /\ Len(response.data) = 10 => udp_works = "False")
    /\ (response.received /\ Len(response.data) = 11 => udp_works = "True")
    /\ (udp_works # "None" /\ ~response.received => udp_works = "False")
    /\ (pc \in {"returned", "exit"} =>
            (result = "True" <=> step >= 3 /\ udp_works = "True"))
    /\ (pc = "exit" => (exitCode = 0 <=> udp_works = "True"))

\* an 11-byte reply makes the check succeed
C6_Witness ==
    /\ pc = "exit"
    /\ response.received
    /\ Len(response.data) = 11
    /\ result = "True"

\* a 10-byte reply makes it fail
C6_WitnessTen ==
    /\ pc = "exit"
    /\ response.received
    /\ Len(response.data) = 10
    /\ result = "False"

(***************************************************************************)
(* C7                                                                      *)
(***************************************************************************)
\* C7: the receive timeout set on the probe's UDP socket is the value the
\* caller supplied (--timeout, default 5); the TCP timeout is 10.
C7_TimeoutConfigurable ==
    /\ (udp_sock # "None" => udpTimeout = timeout_arg)
    /\ (tcp_sock # "None" => tcpTimeout = 10)

(***************************************************************************)
(* C8                                                                      *)
(***************************************************************************)
\* C8 as stated: every execution of check_udp_support creates exactly one
\* TCP socket and exactly one UDP socket.
C8_ExactlyOneOfEach ==
    Terminal => tcpCreated = 1 /\ udpCreated = 1

\* C8, amended: a check creates at most one TCP socket and at most one UDP
\* socket; the UDP socket is created only after the TCP socket and after UDP
\* ASSOCIATE has returned an endpoint, so a check that fails earlier creates
\* none, and a check that reaches the probe's verdict has created exactly
\* one of each.
C8_AtMostOneOfEach ==
    /\ tcpCreated <= 1
    /\ udpCreated <= 1
    /\ (udpCreated = 1 => tcpCreated = 1 /\ step >= 3)
    /\ (udp_works # "None" => tcpCreated = 1 /\ udpCreated = 1)

\* a check that failed in UDP ASSOCIATE ends with one TCP socket and no UDP
\* socket
C8_Witness ==
    /\ pc = "exit"
    /\ HasRead("header")
    /\ step = 2
    /\ tcpCreated = 1
    /\ udpCreated = 0

(***************************************************************************)
(* C9                                                                      *)
(***************************************************************************)
BadGreetingVersion ==
    /\ HasRead("greeting")
    /\ Len(ReadOf("greeting")) = 2
    /\ ReadOf("greeting")[1] # 5

BadHeaderVersion ==
    /\ HasRead("header")
    /\ Len(ReadOf("header")) = 4
    /\ ReadOf("header")[1] # 5

\* C9: a version byte other than 0x05 in the greeting response or in the UDP
\* ASSOCIATE response header fails the step and the check: after a bad
\* greeting version nothing more is written (no auth request, no associate
\* request); after a bad associate version nothing more is read and no probe
\* is made, even when the reply code is 0x00.
C9_VersionMismatchFatal ==
    /\ (BadGreetingVersion =>
            /\ exc.kind = "ConnectionError"
            /\ Len(tcpSent) = 1
            /\ Len(tcpReads) = 1
            /\ udpCreated = 0
            /\ udpSent = <<>>
            /\ (Terminal => result = "False"))
    /\ (BadHeaderVersion =>
            /\ exc.kind = "ConnectionError"
            /\ tcpReads[Len(tcpReads)].what = "header"
            /\ relay_host = None
            /\ relay_port = -1
            /\ udpCreated = 0
            /\ udpSent = <<>>
            /\ (Terminal => result = "False"))

\* a header with a bad version and reply code 0x00
C9_Witness ==
    /\ pc = "exit"
    /\ BadHeaderVersion
    /\ ReadOf("header")[2] = 0
    /\ result = "False"

\* a greeting response with a bad version
C9_WitnessGreeting ==
    /\ pc = "exit"
    /\ BadGreetingVersion
    /\ result = "False"

(***************************************************************************)
(* C10                                                                     *)
(***************************************************************************)
\* a 4-byte, version 5 UDP ASSOCIATE response header was read
GoodHeaderVersion ==
    /\ HasRead("header")
    /\ Len(ReadOf("header")) = 4
    /\ ReadOf("header")[1] = 5

\* C10: for a version 5 UDP ASSOCIATE response with a non-zero reply code
\* the step fails; the message is the table's fixed message for codes
\* 0x01..0x09 (0x02: "Connection not allowed by ruleset") and "Unknown error"
\* with the decimal code for any other; reply 0x00 is the only one with
\* which the step goes on to read the address.
C10_ReplyCodeMessages ==
    /\ (GoodHeaderVersion =>
            LET reply == ReadOf("header")[2] IN
            /\ (reply \in 1..9 =>
                    exc = Exc("ConnectionError",
                              "UDP ASSOCIATE failed: " \o ERROR_MESSAGES[reply]))
            /\ (reply = 2 =>
                    exc.msg =
                      "UDP ASSOCIATE failed: Connection not allowed by ruleset")
            /\ (reply = 9 =>
                    exc.msg = "UDP ASSOCIATE failed: UDP not supported")
            /\ (reply \notin 0..9 =>
                    exc = Exc("ConnectionError",
                              "UDP ASSOCIATE failed: Unknown error (code "
                                  \o ToString(reply) \o ")"))
            /\ (reply # 0 => /\ tcpReads[Len(tcpReads)].what = "header"
                             /\ udpSent = <<>>
                             /\ (Terminal => result = "False")))
    /\ (pc \in {"recv_ipv4", "recv_len"} =>
            GoodHeaderVersion /\ ReadOf("header")[2] = 0 /\ exc = NoExc)

\* reply 0x02 and its message
C10_Witness ==
    /\ pc = "exit"
    /\ GoodHeaderVersion
    /\ ReadOf("header")[2] = 2
    /\ exc.msg = "UDP ASSOCIATE failed: Connection not allowed by ruleset"

\* a reply code outside the table
C10_WitnessUnknown ==
    /\ pc = "exit"
    /\ GoodHeaderVersion
    /\ ReadOf("header")[2] = 255
    /\ exc.msg = "UDP ASSOCIATE failed: Unknown error (code 255)"

(***************************************************************************)
(* C11                                                                     *)
(***************************************************************************)
\* the response to the auth request is 2 bytes with second byte 0x00
AuthResponseOk ==
    /\ Len(ReadOf("auth")) = 2
    /\ ReadOf("auth")[2] = 0

\* C11: once the response to the auth request is read, authentication
\* succeeds iff the response is exactly 2 bytes with second byte 0x00
\* (whatever the first byte); otherwise the handshake fails with
\* "Authentication failed" and no UDP ASSOCIATE request is written.
C11_AuthResponse ==
    HasRead("auth") =>
        /\ AuthWrites # {}
        /\ (AuthResponseOk =>
                /\ step >= 2
                /\ exc.msg # "Authentication failed"
                /\ (pc = "send_assoc" \/ AssociateWrites # {}))
        /\ (~AuthResponseOk =>
                /\ exc = Exc("ConnectionError", "Authentication failed")
                /\ step = 1
                /\ AssociateWrites = {}
                /\ Len(tcpSent) = 2
                /\ udpSent = <<>>
                /\ (Terminal => result = "False"))

\* a 2-byte response with a non-zero status
C11_Witness ==
    /\ pc = "exit"
    /\ HasRead("auth")
    /\ ReadOf("auth") = <<1, 1>>
    /\ result = "False"

\* a 1-byte response, and a success whose first byte is not 0x01
C11_WitnessShort ==
    /\ pc = "exit"
    /\ HasRead("auth")
    /\ Len(ReadOf("auth")) = 1

C11_WitnessSuccess ==
    /\ HasRead("auth")
    /\ ReadOf("auth") = <<5, 0>>
    /\ AssociateWrites # {}

(***************************************************************************)
(* C12                                                                     *)
(***************************************************************************)
\* the greetings among the messages written to the control channel
GreetingWrites ==
    {i \in 1..Len(tcpSent) : tcpSent[i] \in {<<5, 1, 0>>, <<5, 2, 0, 2>>}}

\* C12: the first message written on the TCP connection is the greeting:
\* the 3-byte frame 05 01 00 when username or password is missing or empty,
\* the 4-byte frame 05 02 00 02 when both are non-empty.
C12_GreetingByCredentials ==
    /\ (tcpSent # <<>> =>
            tcpSent[1] = IF HasCredentials THEN <<5, 2, 0, 2>>
                         ELSE <<5, 1, 0>>)
    /\ (pc \notin {"tcp_socket", "tcp_connect", "send_greeting"}
            /\ tcpConnects > 0 /\ step >= 1 => tcpSent # <<>>)
    /\ (tcpReads # <<>> => tcpSent # <<>>)

\* a username without a password gets the 3-byte greeting
C12_Witness ==
    /\ ~username.isNone /\ username.val # <<>>
    /\ password.isNone
    /\ tcpSent # <<>>
    /\ tcpSent[1] = <<5, 1, 0>>

C12_WitnessBoth ==
    /\ HasCredentials
    /\ tcpSent # <<>>
    /\ tcpSent[1] = <<5, 2, 0, 2>>

(***************************************************************************)
(* C13                                                                     *)
(***************************************************************************)
\* a 4-byte header with version 5 and reply 0x00 was read
SuccessHeader ==
    /\ GoodHeaderVersion
    /\ ReadOf("header")[2] = 0

C13_WitnessIpv4 ==
    /\ step >= 3
    /\ ReadOf("header") = <<5, 0, 0, 1>>
    /\ relay_host = Str(<<49, 46, 50, 46, 51, 46, 52>>)
    /\ relay_port = 5000

\* an address type that is neither IPv4 nor domain
C13_WitnessUnsupported ==
    /\ pc = "exit"
    /\ HasRead("header")
    /\ ReadOf("header") = <<5, 0, 0, 4>>
    /\ exc.msg = "Unsupported address type: 4"

(***************************************************************************)
(* C14                                                                     *)
(***************************************************************************)
\* some read of the control channel returned fewer bytes than it asked for
ShortRead ==
    \E i \in 1..Len(tcpReads) : Len(tcpReads[i].got) < tcpReads[i].req

\* C14: whenever a read of the handshake or associate exchange returns
\* fewer bytes than requested, the check fails: the partial data is not used
\* as a relay endpoint, no probe is sent and the result is False.
C14_ShortReadFatal ==
    ShortRead =>
        /\ step < 3
        /\ udpSent = <<>>
        /\ (Terminal => result = "False")

(***************************************************************************)
(* C15                                                                     *)
(***************************************************************************)
\* C15: within one check nothing is tried twice: at most one TCP socket and
\* one connect, and the greeting, the auth request, the UDP ASSOCIATE
\* request and the probe datagram are each sent at most once, whatever the
\* server answers and whatever times out.
C15_OneAttempt ==
    /\ tcpCreated <= 1
    /\ tcpConnects <= 1
    /\ Cardinality(GreetingWrites) <= 1
    /\ Cardinality(AuthWrites) <= 1
    /\ Cardinality(AssociateWrites) <= 1
    /\ Len(tcpSent) <= 3
    /\ udpCreated <= 1
    /\ Len(udpSent) <= 1

\* a full check whose probe timed out: everything was sent once
C15_Witness ==
    /\ pc = "exit"
    /\ Cardinality(GreetingWrites) = 1
    /\ Cardinality(AuthWrites) = 1
    /\ Cardinality(AssociateWrites) = 1
    /\ Len(udpSent) = 1
    /\ ~response.received
    /\ udp_works = "False"

(***************************************************************************)
(* C16                                                                     *)
(***************************************************************************)
\* C16: with a version 5 response, a method that is neither 0xFF nor 0x02
\* (0x01 included, which the client never offers) is accepted as
\* authenticated: no auth request is written or read and the check goes on
\* to write the UDP ASSOCIATE request; method 0xFF fails with "No acceptable
\* authentication methods"; method 0x02 without client credentials fails
\* with "Server requires authentication".
C16_PermissiveMethod ==
    /\ (SelectedMethod \notin {-1, 2, 255} =>
            /\ step >= 2
            /\ AuthWrites = {}
            /\ ~HasRead("auth")
            /\ (pc = "send_assoc" => exc = NoExc)
            /\ (pc # "send_assoc" =>
                    AssociateWrites # {} /\ tcpSent[2] = AssociateRequest))
    /\ (SelectedMethod = 255 =>
            /\ exc = Exc("ConnectionError",
                         "No acceptable authentication methods")
            /\ step = 1
            /\ Len(tcpSent) = 1
            /\ (Terminal => result = "False"))
    /\ (SelectedMethod = 2 /\ ~HasCredentials =>
            /\ exc = Exc("ConnectionError", "Server requires authentication")
            /\ step = 1
            /\ Len(tcpSent) = 1
            /\ (Terminal => result = "False"))

\* the server selects 0x01, which was not offered, and the check goes on
C16_Witness ==
    /\ SelectedMethod = 1
    /\ AssociateWrites # {}
    /\ step >= 3

C16_WitnessRejected ==
    /\ pc = "exit"
    /\ SelectedMethod = 255

C16_WitnessRequired ==
    /\ pc = "exit"
    /\ SelectedMethod = 2
    /\ ~HasCredentials

C20_FirstDatagramDecides ==
    [][/\ (pc = "udp_recv" /\ pc' = "udp_close" /\ exc' = NoExc
               /\ udpQueue # <<>> =>
               /\ response' = [received |-> TRUE,
                               data |-> Head(udpQueue).data,
                               sender |-> Head(udpQueue).sender]
               /\ udp_works' = IF Len(Head(udpQueue).data) > 10 THEN "True"
                               ELSE "False")
       /\ (response'.received /\ pc' \in {"returned", "exit"} =>
               result' = IF Len(response'.data) > 10 THEN "True"
                         ELSE "False")
       /\ (response.received => response' = response)
       /\ (udp_works # "None" => udp_works' = udp_works)]_vars

\* an 11-byte datagram from another sender makes the check succeed
C20_Witness ==
    /\ pc = "exit"
    /\ response.received
    /\ response.sender = "other"
    /\ Len(response.data) = 11
    /\ result = "True"
    /\ exitCode = 0

\* a 10-byte first datagram makes it fail although a longer reply of the
\* relay is behind it
C20_WitnessShort ==
    /\ pc = "udp_close"
    /\ response.received
    /\ Len(response.data) = 10
    /\ udpQueue # <<>>
    /\ Head(udpQueue).sender = "relay"
    /\ Len(Head(udpQueue).data) > 10
    /\ udp_works = "False"

(***************************************************************************)
(* C18                                                                     *)
(***************************************************************************)
\* C18: when every blocking network operation completes or times out, the
\* check eventually returns True or False, whatever the server and the
\* relay do, also when the server never answers or the relay never replies.
C18_Terminates ==
    <>(pc \in {"returned", "exit"} /\ result \in {"True", "False"})

\* the server never answered the greeting: the check returned False
C18_Witness ==
    /\ pc = "exit"
    /\ Len(tcpSent) = 1
    /\ tcpReads = <<>>
    /\ exc = Exc("timeout", "recv")
    /\ result = "False"

\* the relay never replied: the check returned False
C18_WitnessRelaySilent ==
    /\ pc = "exit"
    /\ udpSent # <<>>
    /\ ~response.received
    /\ udpQueue = <<>>
    /\ exc = NoExc
    /\ result = "False"

(***************************************************************************)
(* C17                                                                     *)
(***************************************************************************)
\* C17: the control-channel sequence is enforced by the functions
\* themselves: a UDP ASSOCIATE request is written only on a connection
\* whose handshake has completed successfully, and no greeting is written
\* once the handshake has completed.
C17_OutOfOrderRejected ==
    [][Len(tcpSent') > Len(tcpSent) =>
          /\ (tcpSent'[Len(tcpSent')] = AssociateRequest => HandshakeCompleted)
          /\ (tcpSent'[Len(tcpSent')] = Greeting(username, password) =>
                 ~HandshakeCompleted)]_vars

====
